---- MODULE Spec2Model ----
(***************************************************************************)
(* Model of the TrainIdentifyReview flow                                   *)
(* (course/week3/conflearn_project/flow.py): a linear Metaflow pipeline    *)
(* start -> init_system -> train_test -> crossval -> inspect -> review ->  *)
(* retrain_retest -> end.                                                  *)
(*                                                                         *)
(* Indices are 0-based as in the source; a Python sequence s is a TLA+     *)
(* sequence and s[i] of the source is At(s, i).                            *)
(***************************************************************************)
EXTENDS Integers, Sequences, FiniteSets, TLC

\* ---------------------------------------------------------------- bounds
\* largest total number of rows (train + dev + test) of a data module
MaxN == 4
\* longest ranked issue list find_label_issues returns in the model
MaxIssues == 2
\* largest number of runs (the first run plus the resumes of it)
MaxRuns == 2

\* ------------------------------------------------------ program constants
\* KFold(n_splits=3)
n_splits == 3

\* ---------------------------------------------------------------- helpers
At(s, i) == s[i + 1]

Range(s) == {s[j] : j \in 1..Len(s)}

\* the Python slice s[a:b]
Slice(s, a, b) == [j \in 1..(b - a) |-> s[a + j]]

Min(a, b) == IF a < b THEN a ELSE b

\* all sequences of distinct elements of S of length at most m
DistinctSeqs(S, m) ==
  {q \in UNION {[1..k -> S] : k \in 0..m} :
     \A a, b \in 1..Len(q) : a # b => q[a] # q[b]}

\* ------------------------------------------------------------------ state
VARIABLES
  dataset,     \* the reviews on disk that ReviewDataModule(config) loads
  pc,          \* the step the run is about to execute, "done" or "failed"
  run,         \* the run identifier of the current run
  failedStep,  \* the step whose task raised, "none" otherwise
  self,        \* the flow object's fields in the current task
  snapshot,    \* per run and step: the fields persisted when the step ended
  trace,       \* the tasks executed so far: run, step, whether it completed
  rng,         \* the process-wide random state of the current task's process
  seedSets,    \* the (run, step) pairs whose task fixed the random seeds
  randomUses,  \* the uses of randomness: run, step, whether seeded then
  readLog,     \* the reads of a flow field: step, field, step that stored it
  fitted,      \* every classifier fitted: its identity and training rows
  files,       \* the artifact files written: run and name
  outputs,     \* the content of pre-annotations.json as last written
  cv           \* the locals of the last crossval task when it ended

vars == <<dataset, pc, run, failedStep, self, snapshot, trace, rng, seedSets,
          randomUses, readLog, fitted, files, outputs, cv>>

Steps == <<"start", "init_system", "train_test", "crossval", "inspect",
           "review", "retrain_retest", "end">>

StepSet == Range(Steps)

StepNo(s) == CHOOSE j \in 1..Len(Steps) : Steps[j] = s

Fields == {"config", "dm", "system", "trainer", "all_df", "issues"}

\* a field no step has stored; a stored value v is held as <<v>>
NoVal == [val |-> <<>>, by |-> "none"]

\* a step of a run that has persisted nothing; otherwise the fields persisted
\* and the run whose task persisted them
NoSnap == [done |-> FALSE, by |-> 0, fields |-> [f \in Fields |-> NoVal]]

\* the zero a slot of probs holds before a fold writes it
ProbZero == [model |-> <<"none", 0, 0>>, emb |-> 0]

\* ------------------------------------------------------------ the data
\* one dataset of a ReviewDataModule: rows ids[1..], the embedding column and
\* the data frame (index label, review text, label).  A review's text and
\* its embedding are identified by the row's id.
MakeDataset(ids, labels) ==
  [embedding |-> [j \in 1..Len(ids) |-> ids[j]],
   data      |-> [j \in 1..Len(ids) |->
                    [idx |-> j - 1, review |-> ids[j], label |-> labels[ids[j]]]]]

\* ReviewDataModule(config): the train, dev and test datasets
ReviewDataModule(ds) ==
  [train_dataset |-> MakeDataset(ds.train, ds.label),
   dev_dataset   |-> MakeDataset(ds.dev, ds.label),
   test_dataset  |-> MakeDataset(ds.test, ds.label)]

\* the datasets a run can find on disk: at least one row in each of train,
\* dev and test, rows numbered in that order, every label 0 or 1
Sizes ==
  {t \in (1..MaxN) \X (1..MaxN) \X (1..MaxN) : t[1] + t[2] + t[3] <= MaxN}

Datasets ==
  UNION {{[train |-> [j \in 1..t[1] |-> j],
           dev   |-> [j \in 1..t[2] |-> t[1] + j],
           test  |-> [j \in 1..t[3] |-> t[1] + t[2] + j],
           label |-> lab] : lab \in [1..(t[1] + t[2] + t[3]) -> {0, 1}]} :
         t \in Sizes}

\* ------------------------------------------------------- the step graph
\* faulty variant: review names end, and retrain_retest is skipped
NextStep_skip(s) ==
  CASE s = "start"          -> "init_system"
    [] s = "init_system"    -> "train_test"
    [] s = "train_test"     -> "crossval"
    [] s = "crossval"       -> "inspect"
    [] s = "inspect"        -> "review"
    [] s = "review"         -> "end"
    [] s = "retrain_retest" -> "end"
    [] s = "end"            -> "done"

\* the step each step names in its self.next(...); end names none
NextStep(s) ==
  CASE s = "start"          -> "init_system"
    [] s = "init_system"    -> "train_test"
    [] s = "train_test"     -> "crossval"
    [] s = "crossval"       -> "inspect"
    [] s = "inspect"        -> "review"
    [] s = "review"         -> "retrain_retest"
    [] s = "retrain_retest" -> "end"
    [] s = "end"            -> "done"

\* the step whose self.next names s
PrevStep(s) == CHOOSE p \in StepSet : NextStep(p) = s

\* faulty variant: the task that raised is run again
OnException_retry(s) == s

\* no step catches an exception: the task raises and the run stops there
OnException(s) == "failed"

\* every task runs in a process of its own: the random state a task starts
\* with is that of a new interpreter, whatever an earlier task did to its own
TaskRng(previous) == "unseeded"

\* random.seed(42); np.random.seed(42); torch.manual_seed(42)
SetSeeds(r) == "seeded"

\* -------------------------------------------------------------- crossval
\* np.concatenate / pd.concat of the train, dev and test parts
Concat3(a, b, c) == a \o b \o c

\* faulty variant: the index labels of the three frames are kept
ResetIndex_kept(df) == df

\* all_df.reset_index(drop=True): the index labels become 0..n-1
ResetIndex(df) == [j \in 1..Len(df) |-> [df[j] EXCEPT !.idx = j - 1]]

\* KFold(n_splits=3).split(X) without shuffling: the first n % n_splits folds
\* hold n \div n_splits + 1 consecutive indices, the others n \div n_splits
\* faulty variant: the remainder n % n_splits is dropped
FoldSize_noremainder(n, f) == n \div n_splits

FoldSize(n, f) == (n \div n_splits) + (IF f <= n % n_splits THEN 1 ELSE 0)

\* faulty variant: every earlier fold is taken to hold n \div n_splits indices
FoldStart_noremainder(n, f) == (f - 1) * (n \div n_splits)

RECURSIVE FoldStart(_, _)
FoldStart(n, f) == IF f = 1 THEN 0 ELSE FoldStart(n, f - 1) + FoldSize(n, f - 1)

TestIndex(n, f) == [j \in 1..FoldSize(n, f) |-> FoldStart(n, f) + j - 1]

\* the indices outside the test block, ascending
TrainIndex(n, f) ==
  LET stop == FoldStart(n, f) + FoldSize(n, f)
  IN  [j \in 1..(n - FoldSize(n, f)) |->
         IF j - 1 < FoldStart(n, f) THEN j - 1 ELSE stop + (j - 1 - FoldStart(n, f))]

\* the (train_index, test_index) pairs kf.split(X) yields, in order
KFoldSplit(n) ==
  [f \in 1..n_splits |-> [train |-> TrainIndex(n, f), test |-> TestIndex(n, f)]]

\* X[index]: fancy indexing by a sequence of positions
Take(X, index) == [j \in 1..Len(index) |-> At(X, index[j])]

\* probs[test_index] = probs_
Scatter(probs, index, values) ==
  [i \in DOMAIN probs |->
     IF \E j \in 1..Len(index) : index[j] = i
     THEN values[CHOOSE j \in 1..Len(index) : index[j] = i]
     ELSE probs[i]]

\* the body of the fold loop for fold f: a new classifier, fitted on the
\* training rows, predicts the held-out rows in their order
FoldBody(st, X, f, r) ==
  LET n        == Len(X)
      test     == TestIndex(n, f)
      X_train  == Take(X, TrainIndex(n, f))
      X_test   == Take(X, test)
      system   == <<"fold", r, f>>
      probs_   == [j \in 1..Len(X_test) |-> [model |-> system, emb |-> X_test[j]]]
  IN  [probs  |-> Scatter(st.probs, test, probs_),
       writes |-> [i \in DOMAIN st.writes |->
                     st.writes[i] + Cardinality({j \in 1..Len(test) : test[j] = i})],
       fits   |-> st.fits \cup {[model |-> system, trainedOn |-> Range(X_train)]}]

\* the fold loop run through its first upTo folds
RECURSIVE FoldLoop(_, _, _)
FoldLoop(X, upTo, r) ==
  IF upTo = 0
  THEN [probs  |-> [i \in 0..(Len(X) - 1) |-> ProbZero],
        writes |-> [i \in 0..(Len(X) - 1) |-> 0],
        fits   |-> {}]
  ELSE FoldBody(FoldLoop(X, upTo - 1, r), X, upTo, r)

\* all_df['prob'] = probs
WithProb(df, probs) ==
  [j \in 1..Len(df) |->
     [idx |-> df[j].idx, review |-> df[j].review, label |-> df[j].label,
      prob |-> probs[j - 1]]]

\* ------------------------------------------------------- inspect, review
\* faulty variant: the flagged rows are labelled 1
FlipAt_one(df, index) ==
  [j \in 1..Len(df) |->
     IF df[j].idx = index THEN [df[j] EXCEPT !.label = 1] ELSE df[j]]

\* the loop body of inspect: all_df.loc[index, 'label'] = 1 - label, on the
\* rows whose index label is index
FlipAt(df, index) ==
  [j \in 1..Len(df) |->
     IF df[j].idx = index THEN [df[j] EXCEPT !.label = 1 - df[j].label] ELSE df[j]]

\* the flip loop over the first upTo entries of issues
RECURSIVE FlipLoop(_, _, _)
FlipLoop(df, issues, upTo) ==
  IF upTo = 0 THEN df ELSE FlipAt(FlipLoop(df, issues, upTo - 1), issues[upTo])

\* the record review builds for one issue index: row = all_df.iloc[index]
ReviewRecord(df, index) ==
  LET row == At(df, index)
  IN  [text   |-> row.review,
       choice |-> IF row.label = 1 THEN "Positive" ELSE "Negative",
       id     |-> <<"data", index>>]

\* outputs: one record appended per entry of issues, in its order
ReviewOutputs(df, issues) == [j \in 1..Len(issues) |-> ReviewRecord(df, issues[j])]

\* find_label_issues: a ranked list of distinct row indices of the frame
IssueLists(df) == DistinctSeqs(0..(Len(df) - 1), Min(MaxIssues, Len(df)))

\* ------------------------------------------------------- the flow runtime
\* self.f = v in step s
Store(sf, f, v, s) == [sf EXCEPT ![f] = [val |-> <<v>>, by |-> s]]

\* the reads of fields fs by step s
Reads(s, fs) == {[step |-> s, field |-> f, by |-> self[f].by] : f \in fs}

\* a use of randomness by step s under random state r
Uses(s, r) == {[run |-> run, step |-> s, seeded |-> (r = "seeded")]}

\* the task of step s ends normally with fields sf, which are persisted, and
\* the run goes on to the step s names
Complete(s, sf) ==
  /\ pc' = NextStep(s)
  /\ self' = sf
  /\ snapshot' = [snapshot EXCEPT ![run][s] = [done |-> TRUE, by |-> run, fields |-> sf]]
  /\ trace' = Append(trace, [run |-> run, step |-> s, ok |-> TRUE])
  /\ UNCHANGED <<run, failedStep, dataset>>

\* the task of step s raises with fields sf in memory; nothing is persisted
Raise(s, sf) ==
  /\ pc' = OnException(s)
  /\ failedStep' = s
  /\ self' = sf
  /\ trace' = Append(trace, [run |-> run, step |-> s, ok |-> FALSE])
  /\ UNCHANGED <<run, snapshot, dataset>>

\* faulty variant: the resumed run goes on with the failed task's fields
ResumeInput_memory(failedSelf, persisted) == failedSelf

\* the fields the first task of a resumed run starts with: those persisted
\* by the step before the failed one, not those of the failed task
ResumeInput(failedSelf, persisted) == persisted

\* the step a resumed run starts at
ResumeFrom(failed) == failed

\* the state of a new run over dataset ds, before its first task
InitWith(ds) ==
  /\ dataset = ds
  /\ pc = "start"
  /\ run = 1
  /\ failedStep = "none"
  /\ self = [f \in Fields |-> NoVal]
  /\ snapshot = [r \in 1..MaxRuns |-> [s \in StepSet |-> NoSnap]]
  /\ trace = <<>>
  /\ rng = "unseeded"
  /\ seedSets = {}
  /\ randomUses = {}
  /\ readLog = {}
  /\ fitted = {}
  /\ files = {}
  /\ outputs = <<>>
  /\ cv = [probs |-> <<>>, writes |-> <<>>, fits |-> {}, splits |-> <<>>, folds |-> 0]

\* a run over any dataset
Init == \E ds \in Datasets : InitWith(ds)

\* a run over a dataset whose labels alternate 1, 0, 1, 0, ...
ToyDatasets == {ds \in Datasets : \A j \in DOMAIN ds.label : ds.label[j] = j % 2}

InitToy == \E ds \in ToyDatasets : InitWith(ds)

\* ---------------------------------------------------------------- steps
start ==
  /\ pc = "start"
  /\ rng' = SetSeeds(TaskRng(rng))
  /\ seedSets' = seedSets \cup {[run |-> run, step |-> "start"]}
  /\ Complete("start", self)
  /\ UNCHANGED <<randomUses, readLog, fitted, files, outputs, cv>>

init_system ==
  /\ pc = "init_system"
  /\ LET config == "config"
         dm     == ReviewDataModule(dataset)
         system == [model |-> <<"init", run, 0>>]
         sf1    == Store(self, "dm", dm, "init_system")
         sf2    == Store(sf1, "system", system, "init_system")
         sf3    == Store(sf2, "trainer", "trainer", "init_system")
         sf4    == Store(sf3, "config", config, "init_system")
     IN  /\ rng' = TaskRng(rng)
         /\ randomUses' = randomUses \cup Uses("init_system", rng')
         /\ Complete("init_system", sf4)
  /\ UNCHANGED <<seedSets, readLog, fitted, files, outputs, cv>>

train_test ==
  /\ pc = "train_test"
  /\ rng' = TaskRng(rng)
  /\ readLog' = readLog \cup Reads("train_test", {"trainer", "system", "dm"})
  /\ fitted' = fitted \cup
       {[model     |-> self["system"].val[1].model,
         trainedOn |-> Range(self["dm"].val[1].train_dataset.embedding)]}
  /\ files' = files \cup {[run |-> run, name |-> "pre-results.json"]}
  /\ Complete("train_test", self)
  /\ UNCHANGED <<seedSets, randomUses, outputs, cv>>

\* X of crossval: the embeddings of train, dev and test, in that order
CrossvalX(dm) ==
  Concat3(dm.train_dataset.embedding, dm.dev_dataset.embedding,
          dm.test_dataset.embedding)

\* faulty variant: the frames are concatenated dev first, unlike X
CrossvalFrame_devfirst(dm, probs) ==
  WithProb(ResetIndex(Concat3(dm.dev_dataset.data, dm.train_dataset.data,
                              dm.test_dataset.data)), probs)

\* the frame crossval concatenates, re-indexes and completes with probs
CrossvalFrame(dm, probs) ==
  WithProb(ResetIndex(Concat3(dm.train_dataset.data, dm.dev_dataset.data,
                              dm.test_dataset.data)), probs)

crossval ==
  /\ pc = "crossval"
  /\ LET dm     == self["dm"].val[1]
         X      == CrossvalX(dm)
         loop   == FoldLoop(X, n_splits, run)
         all_df == CrossvalFrame(dm, loop.probs)
     IN  /\ rng' = TaskRng(rng)
         /\ randomUses' = randomUses \cup Uses("crossval", rng')
         /\ readLog' = readLog \cup Reads("crossval", {"dm", "config"})
         /\ fitted' = fitted \cup loop.fits
         /\ cv' = [probs |-> loop.probs, writes |-> loop.writes, fits |-> loop.fits,
                   splits |-> KFoldSplit(Len(X)), folds |-> n_splits]
         /\ files' = files \cup {[run |-> run, name |-> "prob.csv"]}
         /\ Complete("crossval", Store(self, "all_df", all_df, "crossval"))
  /\ UNCHANGED <<seedSets, outputs>>

\* fitting or predicting raises in fold f: the folds before it have run
crossval_raise ==
  /\ pc = "crossval"
  /\ \E f \in 1..n_splits :
       LET X    == CrossvalX(self["dm"].val[1])
           loop == FoldLoop(X, f - 1, run)
       IN  /\ rng' = TaskRng(rng)
           /\ randomUses' = randomUses \cup Uses("crossval", rng')
           /\ readLog' = readLog \cup Reads("crossval", {"dm", "config"})
           /\ fitted' = fitted \cup loop.fits
           /\ cv' = [probs |-> loop.probs, writes |-> loop.writes, fits |-> loop.fits,
                     splits |-> KFoldSplit(Len(X)), folds |-> f - 1]
           /\ Raise("crossval", self)
  /\ UNCHANGED <<seedSets, files, outputs>>

inspect ==
  /\ pc = "inspect"
  /\ \E ranked_label_issues \in IssueLists(self["all_df"].val[1]) :
       LET sf1     == Store(self, "issues", ranked_label_issues, "inspect")
           flipped == FlipLoop(self["all_df"].val[1], ranked_label_issues,
                               Len(ranked_label_issues))
           sf2     == [sf1 EXCEPT !["all_df"].val[1] = flipped]
       IN  Complete("inspect", sf2)
  /\ rng' = TaskRng(rng)
  /\ readLog' = readLog \cup Reads("inspect", {"all_df"})
  /\ UNCHANGED <<seedSets, randomUses, fitted, files, outputs, cv>>

\* inspect raises after upTo of the flips (or in find_label_issues, before
\* issues is stored)
inspect_raise ==
  /\ pc = "inspect"
  /\ \/ Raise("inspect", self)
     \/ \E ranked_label_issues \in IssueLists(self["all_df"].val[1]) :
          \E upTo \in 0..Len(ranked_label_issues) :
            LET sf1     == Store(self, "issues", ranked_label_issues, "inspect")
                flipped == FlipLoop(self["all_df"].val[1], ranked_label_issues, upTo)
            IN  Raise("inspect", [sf1 EXCEPT !["all_df"].val[1] = flipped])
  /\ rng' = TaskRng(rng)
  /\ readLog' = readLog \cup Reads("inspect", {"all_df"})
  /\ UNCHANGED <<seedSets, randomUses, fitted, files, outputs, cv>>

review ==
  /\ pc = "review"
  /\ outputs' = ReviewOutputs(self["all_df"].val[1], self["issues"].val[1])
  /\ files' = files \cup {[run |-> run, name |-> "pre-annotations.json"]}
  /\ rng' = TaskRng(rng)
  /\ readLog' = readLog \cup Reads("review", {"issues", "all_df", "config"})
  /\ Complete("review", self)
  /\ UNCHANGED <<seedSets, randomUses, fitted, cv>>

retrain_retest ==
  /\ pc = "retrain_retest"
  /\ LET dm         == ReviewDataModule(dataset)
         train_size == Len(dm.train_dataset.data)
         dev_size   == Len(dm.dev_dataset.data)
         all_df     == self["all_df"].val[1]
         train_data == Slice(all_df, 0, train_size)
         system     == <<"retrain", run, 0>>
     IN  fitted' = fitted \cup
           {[model |-> system, trainedOn |-> Range(dm.train_dataset.embedding),
             labels |-> [j \in 1..train_size |-> train_data[j].label]]}
  /\ rng' = TaskRng(rng)
  /\ randomUses' = randomUses \cup Uses("retrain_retest", rng')
  /\ readLog' = readLog \cup Reads("retrain_retest", {"config", "all_df"})
  /\ files' = files \cup {[run |-> run, name |-> "post-results.json"]}
  /\ Complete("retrain_retest", self)
  /\ UNCHANGED <<seedSets, outputs, cv>>

end ==
  /\ pc = "end"
  /\ rng' = TaskRng(rng)
  /\ Complete("end", self)
  /\ UNCHANGED <<seedSets, randomUses, readLog, fitted, files, outputs, cv>>

\* a step other than crossval and inspect raises before it stores or writes
\* anything (in a constructor, in fit or test, or in to_json)
step_raise ==
  /\ pc \in {"init_system", "train_test", "review", "retrain_retest"}
  /\ rng' = TaskRng(rng)
  /\ Raise(pc, self)
  /\ UNCHANGED <<seedSets, randomUses, readLog, fitted, files, outputs, cv>>

\* python flow.py resume: a new run that takes over what the failed run's
\* completed steps persisted and starts at the step that failed
resume ==
  /\ pc = "failed"
  /\ run < MaxRuns
  /\ run' = run + 1
  /\ pc' = ResumeFrom(failedStep)
  /\ failedStep' = "none"
  /\ self' = ResumeInput(self, snapshot[run][PrevStep(failedStep)].fields)
  /\ snapshot' = [snapshot EXCEPT ![run + 1] =
       [s \in StepSet |->
          IF StepNo(s) < StepNo(failedStep) THEN snapshot[run][s] ELSE NoSnap]]
  /\ UNCHANGED <<dataset, trace, rng, seedSets, randomUses, readLog, fitted,
                 files, outputs, cv>>

\* the flip loop of inspect applied a second time over the same issue list
flip_again ==
  /\ pc = "review"
  /\ pc' = "flipped_twice"
  /\ self' = [self EXCEPT !["all_df"].val[1] =
                FlipLoop(self["all_df"].val[1], self["issues"].val[1],
                         Len(self["issues"].val[1]))]
  /\ UNCHANGED <<dataset, run, failedStep, snapshot, trace, rng, seedSets,
                 randomUses, readLog, fitted, files, outputs, cv>>

\* a run in which no task raises
NextRun ==
  \/ start
  \/ init_system
  \/ train_test
  \/ crossval
  \/ inspect
  \/ review
  \/ retrain_retest
  \/ end

\* a run up to inspect, and its flip loop applied once more
NextFlip ==
  \/ start
  \/ init_system
  \/ train_test
  \/ crossval
  \/ inspect
  \/ flip_again

\* runs with failing tasks and resumes
Next ==
  \/ start
  \/ init_system
  \/ train_test
  \/ crossval
  \/ crossval_raise
  \/ inspect
  \/ inspect_raise
  \/ review
  \/ retrain_retest
  \/ end
  \/ step_raise
  \/ resume

Spec == InitToy /\ [][Next]_vars

SpecData == Init /\ [][NextRun]_vars

SpecFlip == Init /\ [][NextFlip]_vars

\* ------------------------------------------------------------- claims
\* the rows of the full dataset in train, dev, test order, and row i's
\* label as the dataset on disk gives it
RowIds == dataset.train \o dataset.dev \o dataset.test

OrigLabel(i) == dataset.label[At(RowIds, i)]

CrossvalDone == cv.folds = n_splits

AllDfStored == self["all_df"].by # "none"

\* C1: when the fold loop of crossval has run over n >= 3 rows, the test
\* index sets of the 3 folds are pairwise disjoint and their union is
\* 0..n-1: every row index is a test index of exactly one fold and a
\* training index of exactly the other two.
KFoldPartition ==
  CrossvalDone =>
    LET n     == Len(RowIds)
        folds == 1..n_splits
        test(f)  == Range(cv.splits[f].test)
        train(f) == Range(cv.splits[f].train)
    IN  /\ n >= 3
        /\ Len(cv.splits) = n_splits
        /\ \A f, g \in folds : f # g => test(f) \cap test(g) = {}
        /\ UNION {test(f) : f \in folds} = 0..(n - 1)
        /\ \A i \in 0..(n - 1) :
             /\ Cardinality({f \in folds : i \in test(f)}) = 1
             /\ Cardinality({f \in folds : i \in train(f)}) = n_splits - 1
             /\ \A f \in folds : ~(i \in test(f) /\ i \in train(f))

KFoldPartition_witness ==
  /\ CrossvalDone
  /\ Len(RowIds) = 4
  /\ Len(cv.splits[1].test) = 2
  /\ Len(cv.splits[3].test) = 1

\* C2: once crossval has stored all_df, the prob of every row is the
\* prediction for that row's own embedding, made by a classifier created in
\* a fold of crossval and fitted on rows that do not include this row; the
\* classifier of train_test supplies no prob.
OutOfSampleProbs ==
  AllDfStored =>
    LET all_df == self["all_df"].val[1]
    IN  /\ Len(all_df) = Len(RowIds)
        /\ \A j \in 1..Len(all_df) :
             LET p == all_df[j].prob
             IN  /\ all_df[j].review = RowIds[j]
                 /\ p.emb = all_df[j].review
                 /\ p.model[1] = "fold"
                 /\ p.model # self["system"].val[1].model
                 /\ Cardinality({m \in fitted : m.model = p.model}) = 1
                 /\ \A m \in fitted :
                      m.model = p.model => all_df[j].review \notin m.trainedOn

OutOfSampleProbs_witness ==
  /\ pc = "inspect"
  /\ AllDfStored
  /\ Len(self["all_df"].val[1]) = 4
  /\ self["all_df"].val[1][1].prob.model # self["all_df"].val[1][4].prob.model

\* C3: when the fold loop of crossval has finished, every index of probs has
\* been written exactly once and none still holds its initial zero.
ProbsWrittenOnce ==
  CrossvalDone =>
    /\ DOMAIN cv.probs = 0..(Len(RowIds) - 1)
    /\ \A i \in DOMAIN cv.probs : cv.writes[i] = 1 /\ cv.probs[i] # ProbZero

ProbsWrittenOnce_witness ==
  /\ CrossvalDone
  /\ Len(RowIds) = 4
  /\ \A i \in 0..3 : cv.writes[i] = 1

\* the step before s in the order start, init_system, ..., end
Before(s) == Steps[StepNo(s) - 1]

\* the positions in trace of the tasks of run r
TasksOf(r) == {j \in 1..Len(trace) : trace[j].run = r}

\* C4: the steps of a run execute in the one order start, init_system,
\* train_test, crossval, inspect, review, retrain_retest, end: a task is
\* followed in its run only by the task of the next step, a step begins only
\* when its predecessor has completed, no step runs twice in a run, and the
\* run is done only when all eight steps have completed.
LinearOrder ==
  /\ pc \in StepSet \cup {"done", "failed"}
  /\ trace # <<>> => trace[1].run = 1 /\ trace[1].step = "start"
  /\ \A j \in 1..Len(trace) :
       LET e == trace[j]
       IN  /\ e.step \in StepSet
           /\ e.step # "start" => snapshot[e.run][Before(e.step)].done
           /\ \A k \in TasksOf(e.run) : k # j => trace[k].step # e.step
           /\ (j < Len(trace) /\ trace[j + 1].run = e.run) =>
                /\ e.ok
                /\ StepNo(trace[j + 1].step) = StepNo(e.step) + 1
  /\ (pc \in StepSet /\ pc # "start") => snapshot[run][Before(pc)].done
  /\ pc = "done" =>
       /\ \A s \in StepSet : snapshot[run][s].done
       /\ trace[Len(trace)] = [run |-> run, step |-> "end", ok |-> TRUE]

LinearOrder_witness ==
  /\ pc = "done"
  /\ run = 1
  /\ Len(trace) = Len(Steps)
  /\ \A j \in 1..Len(Steps) : trace[j].step = Steps[j]

\* the labels of frame df are those of the dataset with exactly the rows of
\* issues complemented
FlippedOnce(df, issues) ==
  \A j \in 1..Len(df) :
    df[j].label = IF (j - 1) \in Range(issues)
                  THEN 1 - OrigLabel(j - 1) ELSE OrigLabel(j - 1)

\* C5: a resume of a run that failed in step S starts at S with the fields
\* persisted at the end of the step before S, takes over what the completed
\* steps persisted without executing them again, and so carries to the end
\* what a run without the failure carries: the labels inspect flipped are
\* flipped once.
ResumeContinues ==
  /\ \A r \in 2..run :
       LET failed == {j \in TasksOf(r - 1) : ~trace[j].ok}
       IN  /\ Cardinality(failed) = 1
           /\ \A j \in failed :
                LET S == trace[j].step
                IN  /\ \A k \in TasksOf(r) :
                         /\ k > j
                         /\ StepNo(trace[k].step) >= StepNo(S)
                         /\ (\A m \in TasksOf(r) : k <= m) => trace[k].step = S
                    /\ \A s \in StepSet :
                         StepNo(s) < StepNo(S) =>
                           /\ snapshot[r][s].done
                           /\ snapshot[r][s] = snapshot[r - 1][s]
                           /\ snapshot[r][s].by < r
                    /\ (r = run /\ TasksOf(r) = {}) =>
                         /\ pc = S
                         /\ self = snapshot[r][Before(S)].fields
  /\ \A r \in 1..run :
       snapshot[r]["inspect"].done =>
         FlippedOnce(snapshot[r]["inspect"].fields["all_df"].val[1],
                     snapshot[r]["inspect"].fields["issues"].val[1])
  /\ pc = "done" =>
       /\ self = snapshot[run]["inspect"].fields
       /\ FlippedOnce(self["all_df"].val[1], self["issues"].val[1])

ResumeContinues_witness ==
  /\ pc = "done"
  /\ run = 2
  /\ \E j \in TasksOf(1) : trace[j].step = "inspect" /\ ~trace[j].ok
  /\ Len(self["issues"].val[1]) = 2

\* C8: a task that raises ends its run: the run does not go on to the next
\* step, runs no later task and does not run the task again, and what the
\* task had in memory is not persisted.  When crossval raises in a fold, that
\* run writes no prob.csv, carries no all_df and never runs inspect.
FailureIsFatal ==
  /\ (pc = "failed") = (failedStep # "none")
  /\ \A j \in 1..Len(trace) :
       ~trace[j].ok =>
         LET e == trace[j]
         IN  /\ \A k \in TasksOf(e.run) : k <= j
             /\ ~snapshot[e.run][e.step].done
             /\ \A s \in StepSet :
                  StepNo(s) > StepNo(e.step) => ~snapshot[e.run][s].done
             /\ (j = Len(trace) /\ run = e.run) => pc = "failed" /\ failedStep = e.step
             /\ e.step = "crossval" =>
                  /\ [run |-> e.run, name |-> "prob.csv"] \notin files
                  /\ \A k \in TasksOf(e.run) : trace[k].step # "inspect"
                  /\ \A s \in StepSet :
                       snapshot[e.run][s].fields["all_df"].by = "none"
                  /\ (pc = "failed" /\ run = e.run) => self["all_df"].by = "none"

FailureIsFatal_witness ==
  /\ pc = "failed"
  /\ failedStep = "crossval"
  /\ cv.folds = 1
  /\ [run |-> run, name |-> "pre-results.json"] \in files

\* C9: the random seeds are fixed exactly once in a run, before anything
\* uses randomness: every use of randomness finds the seed set, and set once
\* in its run.
SeedFixedOnceBeforeUse ==
  \A u \in randomUses :
    /\ u.seeded
    /\ Cardinality({x \in seedSets : x.run = u.run}) = 1

\* C10: every field a step reads was stored for it by the step just before
\* it; a field stored earlier and not stored again is never read.
ReadsExplicitlyForwarded ==
  \A r \in readLog : r.by = Before(r.step)

\* C6: review writes one record per entry of issues, in its order; the record
\* of index i has row i's text and id data-i, and its choice is Positive
\* exactly when row i's label, flipped by inspect, is 1; the row review reads
\* at position i is the one row inspect flipped under index label i.
ReviewRecords ==
  pc \in {"retrain_retest", "end", "done"} =>
    LET all_df == self["all_df"].val[1]
        issues == self["issues"].val[1]
    IN  /\ Len(outputs) = Len(issues)
        /\ \A j \in 1..Len(issues) :
             LET i == issues[j]
             IN  /\ outputs[j].id = <<"data", i>>
                 /\ outputs[j].text = At(RowIds, i)
                 /\ outputs[j].choice \in {"Positive", "Negative"}
                 /\ (outputs[j].choice = "Positive") = (At(all_df, i).label = 1)
                 /\ At(all_df, i).label = 1 - OrigLabel(i)
                 /\ {k \in 1..Len(all_df) : all_df[k].idx = i} = {i + 1}

ReviewRecords_witness ==
  /\ pc = "retrain_retest"
  /\ Len(outputs) = 2
  /\ outputs[1].choice = "Positive"
  /\ outputs[2].choice = "Negative"
  /\ outputs[1].id[2] > outputs[2].id[2]

\* C7: the flip loop of inspect leaves row i with 1 - label when i is in the
\* issue list and with its label otherwise, and the same loop over the same
\* list applied a second time restores every label.
FlipInvolution ==
  /\ pc = "review" =>
       FlippedOnce(self["all_df"].val[1], self["issues"].val[1])
  /\ pc = "flipped_twice" =>
       /\ Len(self["all_df"].val[1]) = Len(RowIds)
       /\ \A j \in 1..Len(self["all_df"].val[1]) :
            self["all_df"].val[1][j].label = OrigLabel(j - 1)

FlipInvolution_witness ==
  /\ pc = "flipped_twice"
  /\ Len(self["issues"].val[1]) = 2
  /\ \E j \in 1..Len(self["all_df"].val[1]) : self["all_df"].val[1][j].label = 1
  /\ \E j \in 1..Len(self["all_df"].val[1]) : self["all_df"].val[1][j].label = 0

====
